---------------------------- MODULE Spec2Model ----------------------------
(***************************************************************************)
(* A model of the accessibility linter: the five pillar evaluators of      *)
(* a11y_trees.py and the orchestrator (run_checks, main) of                *)
(* a11y_linter.py.                                                         *)
(*                                                                         *)
(* Conventions.                                                            *)
(*  - A Python str that the code inspects character by character (a hex    *)
(*    color, a tag name, an attribute value) is a sequence of              *)
(*    one-character strings.                                               *)
(*  - A Python dict is a function; d.get(k, default) is Get(d, k, default).*)
(*  - A call that may raise returns [ok |-> TRUE, val |-> v] or            *)
(*    [ok |-> FALSE, err |-> e].                                           *)
(*  - Scores are kept in half points (ScoreScale), because element_count   *)
(*    returns (ss + gs) / 2: the score 3 is Pts(3) = 6, 2.5 is 5.          *)
(*  - Percentages rounded to one decimal are kept in tenths (66.7 is 667). *)
(***************************************************************************)
EXTENDS Integers, Sequences, FiniteSets, TLC

\* ------------------------------------------------------------------ bounds
\* Longest palette drawn for the evaluator-level specification.
MaxPalette == 2
\* Most elements of a markup document.
MaxElems == 2
\* Most entries of interactions.touch_targets.
MaxTargets == 4
\* How many times run_all / run_checks is repeated on the same input.
MaxRuns == 2

\* --------------------------------------------------------------- constants
\* element_count divides the sum of two scores by 2.
ScoreScale == 2
Pts(n) == n * ScoreScale

\* ----------------------------------------------------------------- helpers
Get(d, k, default) == IF k \in DOMAIN d THEN d[k] ELSE default

Ok(v) == [ok |-> TRUE, val |-> v]
Raise(type, arg) == [ok |-> FALSE, err |-> [type |-> type, arg |-> arg]]

RECURSIVE SumSeq(_)
SumSeq(s) == IF s = <<>> THEN 0 ELSE Head(s) + SumSeq(Tail(s))

Range(s) == {s[i] : i \in 1..Len(s)}

\* All sequences over S of length at most n.
RECURSIVE SeqsUpTo(_, _)
SeqsUpTo(S, n) ==
    IF n = 0 THEN {<<>>}
    ELSE LET shorter == SeqsUpTo(S, n - 1)
         IN  shorter \cup {Append(s, x) : s \in {t \in shorter : Len(t) = n - 1}, x \in S}

\* Mutant: the quotient is cut, not rounded.
RoundDiv_truncated(num, den) == num \div den

\* round(x) of the rational num / den (den > 0, num >= 0) to the nearest
\* integer. No value the checks round lies on a tie, so Python's
\* round-half-even and round-half-up agree here.
RoundDiv(num, den) == (2 * num + den) \div (2 * den)

\* ------------------------------------------------------------- color math
HexLower == <<"0", "1", "2", "3", "4", "5", "6", "7", "8", "9",
              "a", "b", "c", "d", "e", "f">>
HexUpper == <<"0", "1", "2", "3", "4", "5", "6", "7", "8", "9",
              "A", "B", "C", "D", "E", "F">>

IsHexDigit(ch) == ch \in Range(HexLower) \cup Range(HexUpper)

HexDigitVal(ch) ==
    IF ch \in Range(HexLower)
    THEN (CHOOSE i \in 1..16 : HexLower[i] = ch) - 1
    ELSE (CHOOSE i \in 1..16 : HexUpper[i] = ch) - 1

\* re.fullmatch(r"#?[0-9A-Fa-f]{6}", c)
MatchesHexColor(c) ==
    LET body == IF Len(c) > 0 /\ c[1] = "#" THEN Tail(c) ELSE c
    IN  Len(body) = 6 /\ \A i \in 1..6 : IsHexDigit(body[i])

\* str.lstrip("#"): every leading '#' is removed.
RECURSIVE LStripHash(_)
LStripHash(s) ==
    IF Len(s) > 0 /\ s[1] = "#" THEN LStripHash(Tail(s)) ELSE s

\* s[i : i + 2] (0-based i), cut at the end of the string.
Slice2(s, i) ==
    [k \in 1..(IF Len(s) >= i + 2 THEN 2 ELSE IF Len(s) > i THEN Len(s) - i ELSE 0)
        |-> s[i + k]]

\* int(t, 16) of a slice of at most two characters drawn from the model's
\* alphabet (hex digits, '#' and letters that are no hex digit).
ParseHex(t) ==
    IF Len(t) = 0 \/ \E i \in 1..Len(t) : ~IsHexDigit(t[i])
    THEN Raise("ValueError", t)
    ELSE Ok(IF Len(t) = 1 THEN HexDigitVal(t[1])
            ELSE 16 * HexDigitVal(t[1]) + HexDigitVal(t[2]))

\* hex_to_rgb: the three channels as bytes; the code divides each by 255.
hex_to_rgb(hex_color) ==
    LET h == LStripHash(hex_color)
        r == ParseHex(Slice2(h, 0))
        g == ParseHex(Slice2(h, 2))
        b == ParseHex(Slice2(h, 4))
    IN  IF ~r.ok THEN r
        ELSE IF ~g.ok THEN g
        ELSE IF ~b.ok THEN b
        ELSE Ok(<<r.val, g.val, b.val>>)

\* Luminances are exact rationals over LumDen. chan(c) of a channel byte v:
\* c = v / 255 <= 0.03928 exactly when v <= 10, and then
\* c / 12.92 = 5 v / 16473; chan(255 / 255) = 1. The model's colors use
\* only these channel bytes (the other bytes need the real power 2.4).
ChanDen == 16473
LowChannelMax == 10
chan(v) == IF v <= LowChannelMax THEN 5 * v ELSE ChanDen
LumDen == 10000 * ChanDen

\* relative_luminance, as the numerator over LumDen.
relative_luminance(rgb) ==
    2126 * chan(rgb[1]) + 7152 * chan(rgb[2]) + 722 * chan(rgb[3])

\* Mutant: the luminances are not ordered with max and min.
contrast_ratio_unordered(hex1, hex2) ==
    <<relative_luminance(hex_to_rgb(hex1).val) + 500 * ChanDen,
      relative_luminance(hex_to_rgb(hex2).val) + 500 * ChanDen>>

\* contrast_ratio as the pair <<numerator, denominator>> of
\* (L1 + 0.05) / (L2 + 0.05), both over LumDen.
contrast_ratio(hex1, hex2) ==
    LET Ratio(lum1, lum2) ==
            LET L1 == IF lum1 >= lum2 THEN lum1 ELSE lum2
                L2 == IF lum1 >= lum2 THEN lum2 ELSE lum1
            IN  <<L1 + 500 * ChanDen, L2 + 500 * ChanDen>>
    IN  Ratio(relative_luminance(hex_to_rgb(hex1).val),
              relative_luminance(hex_to_rgb(hex2).val))

\* The call contrast_ratio(hex1, hex2): hex_to_rgb(hex1) is evaluated first,
\* then hex_to_rgb(hex2); the first that raises ends the call.
contrast_ratio_call(hex1, hex2) ==
    IF ~hex_to_rgb(hex1).ok THEN hex_to_rgb(hex1)
    ELSE IF ~hex_to_rgb(hex2).ok THEN hex_to_rgb(hex2)
    ELSE Ok(contrast_ratio(hex1, hex2))

\* utils.py holds the same statements as the methods of ColorAccessibility.
utils_hex_to_rgb(hex_color) == hex_to_rgb(hex_color)
utils_contrast_ratio(hex1, hex2) == contrast_ratio_call(hex1, hex2)

\* ratio >= threshold, the threshold a rational <<num, den>> (4.5 is <<9, 2>>).
RatioAtLeast(ratio, threshold) ==
    threshold[2] * ratio[1] >= threshold[1] * ratio[2]

\* The bucketing of a pass rate passed / total (total > 0):
\* >= 0.9 -> 3, >= 0.7 -> 2, >= 0.4 -> 1, else 0.
RateScore(passed, total) ==
    IF 10 * passed >= 9 * total THEN 3
    ELSE IF 10 * passed >= 7 * total THEN 2
    ELSE IF 10 * passed >= 4 * total THEN 1
    ELSE 0

\* round(rate * 100, 1) of rate = passed / total, in tenths of a percent.
RatePct(passed, total) == RoundDiv(1000 * passed, total)

\* ---------------------------------------------------------------- strings
IsWs(ch) == ch \in {" ", "\t", "\n"}
IsDigit(ch) == ch \in {"0", "1", "2", "3", "4", "5", "6", "7", "8", "9"}
DigitVal(ch) == HexDigitVal(ch)

SubSeqFrom(s, i) == IF i > Len(s) THEN <<>> ELSE SubSeq(s, i, Len(s))

\* str.strip()
RECURSIVE LStrip(_)
LStrip(s) == IF Len(s) > 0 /\ IsWs(s[1]) THEN LStrip(Tail(s)) ELSE s
RECURSIVE RStrip(_)
RStrip(s) ==
    IF Len(s) > 0 /\ IsWs(s[Len(s)]) THEN RStrip(SubSeq(s, 1, Len(s) - 1)) ELSE s
Strip(s) == RStrip(LStrip(s))

\* The whitespace-separated tokens of s (how the parser splits a class value).
RECURSIVE SplitWs(_)
SplitWs(s) ==
    LET t == LStrip(s)
    IN  IF t = <<>> THEN {}
        ELSE LET n == IF \E i \in 1..Len(t) : IsWs(t[i])
                      THEN (CHOOSE i \in 1..Len(t) :
                               IsWs(t[i]) /\ \A j \in 1..(i - 1) : ~IsWs(t[j])) - 1
                      ELSE Len(t)
             IN  {SubSeq(t, 1, n)} \cup SplitWs(SubSeqFrom(t, n + 1))

StartsWithAt(s, sub, i) ==
    /\ i + Len(sub) - 1 <= Len(s)
    /\ \A k \in 1..Len(sub) : s[i + k - 1] = sub[k]
StartsWith(s, sub) == StartsWithAt(s, sub, 1)
Contains(s, sub) == \E i \in 1..(Len(s) + 1) : StartsWithAt(s, sub, i)

RECURSIVE DecimalVal(_)
DecimalVal(s) ==
    IF s = <<>> THEN 0
    ELSE 10 * DecimalVal(SubSeq(s, 1, Len(s) - 1)) + DigitVal(s[Len(s)])

\* int(s) of a str over the model's alphabet (digits, sign, whitespace,
\* letters): surrounding whitespace is dropped, one sign is allowed, and
\* anything but a non-empty run of digits raises ValueError.
ParseInt(s) ==
    LET Digits(t, signed) == IF signed THEN Tail(t) ELSE t
        Parsed(t, signed) ==
            IF Digits(t, signed) = <<>>
               \/ \E i \in 1..Len(Digits(t, signed)) : ~IsDigit(Digits(t, signed)[i])
            THEN Raise("ValueError", s)
            ELSE Ok(IF signed /\ t[1] = "-" THEN 0 - DecimalVal(Digits(t, signed))
                    ELSE DecimalVal(Digits(t, signed)))
        Signed(t) == Parsed(t, Len(t) > 0 /\ t[1] \in {"+", "-"})
    IN  Signed(Strip(s))

\* ------------------------------------------------------------ grading
\* utils.grade is imported by a11y_trees.py and is not in the sources: a
\* monotonic threshold table over the unrounded percentage total / max.
grade(total, max_score) ==
    IF 100 * total >= 90 * max_score THEN "Excellent"
    ELSE IF 100 * total >= 70 * max_score THEN "Good"
    ELSE IF 100 * total >= 50 * max_score THEN "Fair"
    ELSE "Failing"

\* The tail of every run_all: the checks dict and its summary. `results` is
\* the sequence of <<name, outcome>> in declaration order; the dict literal
\* evaluates the checks in that order, so the first one that raises ends
\* run_all with its error. max_score is the literal of that run_all.
PillarResult(results, max_score) ==
    LET failed == {i \in 1..Len(results) : ~results[i][2].ok}
        names  == {results[i][1] : i \in 1..Len(results)}
        checks == [n \in names |->
                     results[CHOOSE i \in 1..Len(results) : results[i][1] = n][2].val]
        total  == SumSeq([i \in 1..Len(results) |-> results[i][2].val.score])
    IN  IF failed # {}
        THEN [ok |-> FALSE,
              err |-> results[CHOOSE i \in failed : \A j \in failed : i <= j][2].err]
        ELSE Ok([checks  |-> checks,
                 summary |-> [total_score |-> total,
                              max_score   |-> Pts(max_score),
                              percentage  |-> RoundDiv(1000 * total, Pts(max_score)),
                              grade       |-> grade(total, Pts(max_score))]])

\* ----------------------------------------------------------------- markup
\* BeautifulSoup(chart_html, "html.parser") is a library call; the model
\* starts from its result: the elements in document order, each with its
\* tag name, its attributes (name -> value), the index of its parent
\* element (0: none) and its text content.
Elem(name, attrs, parent, text) ==
    [name |-> name, attrs |-> attrs, parent |-> parent, text |-> text]

NoAttrs == [a \in {} |-> <<>>]

HasAttr(e, a) == a \in DOMAIN e.attrs

\* class_="x" and the selector ".x": x is one of the class tokens.
HasClass(e, cls) == HasAttr(e, "class") /\ cls \in SplitWs(e.attrs["class"])

RECURSIVE IsDescendant(_, _, _)
IsDescendant(doc, j, i) ==
    /\ doc[j].parent # 0
    /\ doc[j].parent < j
    /\ (doc[j].parent = i \/ IsDescendant(doc, doc[j].parent, i))

\* soup.find_all(...): the indices of the matching elements, in order.
FindAll(doc, Match(_)) == {i \in 1..Len(doc) : Match(doc[i])}

\* A set of indices as the sequence in document order.
RECURSIVE InOrder(_)
InOrder(S) ==
    IF S = {} THEN <<>>
    ELSE LET m == CHOOSE i \in S : \A j \in S : i <= j
         IN  <<m>> \o InOrder(S \ {m})

\* ------------------------------------------------------------ Color pillar
contrast_threshold_text == <<9, 2>>
contrast_threshold_graphic == <<3, 1>>

\* Mutant: the color is matched after lstrip("#"), as hex_to_rgb reads it.
validate_palette_lstrip(palette, background) ==
    LET all == palette \o <<background>>
        bad == {i \in 1..Len(all) :
                  ~(Len(LStripHash(all[i])) = 6
                    /\ \A k \in 1..Len(LStripHash(all[i])) : IsHexDigit(LStripHash(all[i])[k]))}
    IN  IF bad = {} THEN Ok(TRUE)
        ELSE Raise("ValueError", all[CHOOSE i \in bad : \A j \in bad : i <= j])

\* Mutant: only the palette is validated, not the background.
validate_palette_without_background(palette, background) ==
    LET bad == {i \in 1..Len(palette) : ~MatchesHexColor(palette[i])}
    IN  IF bad = {} THEN Ok(TRUE)
        ELSE Raise("ValueError", palette[CHOOSE i \in bad : \A j \in bad : i <= j])

\* The first entry of palette + [background] that does not match, if any.
validate_palette(palette, background) ==
    LET all == palette \o <<background>>
        bad == {i \in 1..Len(all) : ~MatchesHexColor(all[i])}
    IN  IF bad = {} THEN Ok(TRUE)
        ELSE Raise("ValueError", all[CHOOSE i \in bad : \A j \in bad : i <= j])

\* ColorAccessibility.__init__: the evaluator object, or the error.
ColorAccessibility(palette, background) ==
    LET v == validate_palette(palette, background)
    IN  IF v.ok
        THEN Ok([kind |-> "color", palette |-> palette, background |-> background])
        ELSE v

\* cspace_convert(rgb, "sRGB1", "CIELab") is a library call. Over the
\* model's colors (every channel byte at most LowChannelMax, or 255) two
\* colors are closer than cb_threshold * 100 = 15 in CIELab exactly when
\* they lie at the same corner of the RGB cube: corners are more than 50
\* apart, colors of one corner less than 5.
Corner(rgb) == [k \in 1..3 |-> rgb[k] > LowChannelMax]
LabClose(c1, c2) == Corner(hex_to_rgb(c1).val) = Corner(hex_to_rgb(c2).val)

is_colorblind_safe(palette) ==
    LET Result(issues) ==
            IF issues = 0 THEN Ok([score |-> Pts(3), safe |-> TRUE, issues |-> issues])
            ELSE IF issues <= 2 THEN Ok([score |-> Pts(2), safe |-> FALSE, issues |-> issues])
            ELSE Ok([score |-> Pts(0), safe |-> FALSE, issues |-> issues])
    IN  Result(Cardinality({p \in (1..Len(palette)) \X (1..Len(palette)) :
                               p[1] < p[2] /\ LabClose(palette[p[1]], palette[p[2]])}))

check_palette_safety(self) == is_colorblind_safe(self.palette)

\* Mutant: the graphic threshold 3.0 is used in place of the text threshold 4.5.
check_background_contrast_graphic(self) ==
    LET Rated(passes, pass_count) ==
            Ok([score     |-> Pts(RateScore(pass_count, Len(self.palette))),
                details   |-> passes,
                pass_rate |-> RatePct(pass_count, Len(self.palette))])
        Result(passes) ==
            IF Len(self.palette) = 0
            THEN Raise("ZeroDivisionError", <<>>)
            ELSE Rated(passes, Cardinality({i \in 1..Len(self.palette) : passes[i]}))
    IN  Result([i \in 1..Len(self.palette) |->
                  RatioAtLeast(contrast_ratio(self.palette[i], self.background),
                               contrast_threshold_graphic)])

check_background_contrast(self) ==
    LET Rated(passes, pass_count) ==
            Ok([score     |-> Pts(RateScore(pass_count, Len(self.palette))),
                details   |-> passes,
                pass_rate |-> RatePct(pass_count, Len(self.palette))])
        Result(passes) ==
            IF Len(self.palette) = 0
            THEN Raise("ZeroDivisionError", <<>>)
            ELSE Rated(passes, Cardinality({i \in 1..Len(self.palette) : passes[i]}))
    IN  Result([i \in 1..Len(self.palette) |->
                  RatioAtLeast(contrast_ratio(self.palette[i], self.background),
                               contrast_threshold_text)])

check_adjacent_contrast(self) ==
    LET n == IF Len(self.palette) = 0 THEN 0 ELSE Len(self.palette) - 1
        total == IF n = 0 THEN 1 ELSE n
        Rated(passes, pass_count) ==
            Ok([score     |-> Pts(RateScore(pass_count, total)),
                details   |-> passes,
                pass_rate |-> RatePct(pass_count, total)])
        Result(passes) == Rated(passes, Cardinality({i \in 1..n : passes[i]}))
    IN  Result([i \in 1..n |->
                  RatioAtLeast(contrast_ratio(self.palette[i], self.palette[i + 1]),
                               contrast_threshold_graphic)])

\* round(relative_luminance, 2), in hundredths.
RoundedLum(c) == RoundDiv(relative_luminance(hex_to_rgb(c).val), LumDen \div 100)

check_grayscale(self) ==
    LET Scored(lums, total, uniq) ==
            Ok([score |-> Pts(IF uniq = total THEN 3
                              ELSE IF 10 * uniq >= 8 * total THEN 2
                              ELSE IF 10 * uniq >= 5 * total THEN 1
                              ELSE 0),
                unique |-> uniq = total,
                luminances |-> lums])
        Result(lums) == Scored(lums, Len(lums), Cardinality(Range(lums)))
    IN  Result([i \in 1..Len(self.palette) |-> RoundedLum(self.palette[i])])

check_pattern_encoding(has_patterns) ==
    IF has_patterns THEN Ok([score |-> Pts(3), message |-> "Uses patterns/shapes in addition to color"])
    ELSE Ok([score |-> Pts(0), message |-> "Color is sole encoding - risk"])

\* alt_palettes is a list: truthy when it is not empty.
check_alt_theme(alt_palettes) ==
    IF Len(alt_palettes) > 0 THEN Ok([score |-> Pts(3), message |-> "Alternate themes available"])
    ELSE Ok([score |-> Pts(0), message |-> "No alternate theme configured"])

check_direct_labels(chart_html) ==
    LET labels == FindAll(chart_html, LAMBDA e : HasClass(e, <<"l", "a", "b", "e", "l">>))
    IN  IF labels # {} THEN Ok([score |-> Pts(3), message |-> "Direct labels present"])
        ELSE Ok([score |-> Pts(0), message |-> "No direct labels detected"])

Color_run_all(self, has_patterns, alt_palettes, chart_html) ==
    PillarResult(<< <<"palette_safety", check_palette_safety(self)>>,
                    <<"background_contrast", check_background_contrast(self)>>,
                    <<"adjacent_contrast", check_adjacent_contrast(self)>>,
                    <<"grayscale_test", check_grayscale(self)>>,
                    <<"pattern_encoding", check_pattern_encoding(has_patterns)>>,
                    <<"alt_theme", check_alt_theme(alt_palettes)>>,
                    <<"direct_labels", check_direct_labels(chart_html)>> >>, 21)

\* ---------------------------------------------------- Screen-reader pillar
\* ScreenReaderAccessibility.__init__: self.soup is the parsed chart_html.
ScreenReaderAccessibility(chart_html) ==
    Ok([kind |-> "screen_reader", soup |-> chart_html])

NameIs(e, n) == e.name = n

\* The average length of the texts is at least n.
has_alt_text(self) ==
    LET imgs  == InOrder(FindAll(self.soup, LAMBDA e : NameIs(e, <<"i", "m", "g">>)))
        descs == InOrder(FindAll(self.soup, LAMBDA e : NameIs(e, <<"d", "e", "s", "c">>)))
        img_alts == [i \in 1..Len(imgs) |-> Strip(Get(self.soup[imgs[i]].attrs, "alt", <<>>))]
        desc_txt == [i \in 1..Len(descs) |-> Strip(self.soup[descs[i]].text)]
        Scored(texts, sum) ==
            IF texts = <<>> THEN Ok([score |-> Pts(0), message |-> "No alt text or descriptions"])
            ELSE IF sum >= 50 * Len(texts) THEN Ok([score |-> Pts(3), message |-> "Detailed descriptions"])
            ELSE IF sum >= 20 * Len(texts) THEN Ok([score |-> Pts(2), message |-> "Basic descriptions"])
            ELSE Ok([score |-> Pts(1), message |-> "Minimal descriptions"])
        Result(texts) == Scored(texts, SumSeq([i \in 1..Len(texts) |-> Len(texts[i])]))
    IN  Result(SelectSeq(img_alts \o desc_txt, LAMBDA t : t # <<>>))

aria_roles(self) ==
    LET roles  == Cardinality(FindAll(self.soup, LAMBDA e : HasAttr(e, "role")))
        labels == Cardinality(FindAll(self.soup, LAMBDA e : HasAttr(e, "aria-label")))
        descby == Cardinality(FindAll(self.soup, LAMBDA e : HasAttr(e, "aria-describedby")))
        truthy == Cardinality({k \in 1..3 : <<roles, labels, descby>>[k] > 0})
    IN  Ok([score |-> Pts(IF truthy < 3 THEN truthy ELSE 3),
            roles |-> roles, labels |-> labels, describedby |-> descby])

semantic_table(self) ==
    LET tables == FindAll(self.soup, LAMBDA e : NameIs(e, <<"t", "a", "b", "l", "e">>))
        tbl == CHOOSE i \in tables : \A j \in tables : i <= j
        inside == {j \in 1..Len(self.soup) : IsDescendant(self.soup, j, tbl)}
        has_th == \E j \in inside : NameIs(self.soup[j], <<"t", "h">>)
        has_cap == \/ \E j \in inside : NameIs(self.soup[j], <<"c", "a", "p", "t", "i", "o", "n">>)
                   \/ \E j \in inside : HasAttr(self.soup[j], "scope")
        sum == 1 + (IF has_th THEN 1 ELSE 0) + (IF has_cap THEN 1 ELSE 0)
    IN  IF tables = {} THEN Ok([score |-> Pts(0), message |-> "No data table"])
        ELSE Ok([score |-> Pts(IF sum < 3 THEN sum ELSE 3),
                 headers |-> has_th, caption |-> has_cap])

\* re.compile(r"h[1-6]") given to find_all is searched in the tag name:
\* it matches anywhere in the name.
IsHeadingLike(e) ==
    \E i \in 1..(Len(e.name) - 1) :
        e.name[i] = "h" /\ e.name[i + 1] \in {"1", "2", "3", "4", "5", "6"}

\* The first error of a sequence of outcomes, or the sequence of values.
AllOrFirstError(outs) ==
    LET failed == {i \in 1..Len(outs) : ~outs[i].ok}
    IN  IF failed = {} THEN Ok([i \in 1..Len(outs) |-> outs[i].val])
        ELSE [ok |-> FALSE, err |-> outs[CHOOSE i \in failed : \A j \in failed : i <= j].err]

\* Whether no level exceeds the one before it by more than one.
LevelsInSequence(hs) == \A i \in 1..(Len(hs) - 1) : hs[i + 1] - hs[i] <= 1

\* int(h.name[1]): the second character of the tag name.
heading_structure(self) ==
    LET Levels(found) ==
            AllOrFirstError([i \in 1..Len(found) |->
                               ParseInt(<<self.soup[found[i]].name[2]>>)])
        Scored(hs, seq) ==
            IF hs = <<>> THEN Ok([score |-> Pts(0), levels |-> hs])
            ELSE Ok([score |-> Pts(IF seq /\ hs[1] = 1 THEN 3 ELSE IF seq THEN 2 ELSE 1),
                     levels |-> hs])
        Result(parsed) ==
            IF ~parsed.ok THEN parsed
            ELSE Scored(parsed.val, LevelsInSequence(parsed.val))
    IN  Result(Levels(InOrder(FindAll(self.soup, IsHeadingLike))))

check_textual_equivalents(self) ==
    LET axes == \E i \in 1..Len(self.soup) :
                    /\ NameIs(self.soup[i], <<"g">>) /\ HasClass(self.soup[i], <<"a", "x", "i", "s">>)
                    /\ HasAttr(self.soup[i], "aria-labelledby")
        legend == \E i \in 1..Len(self.soup) :
                    /\ NameIs(self.soup[i], <<"g">>) /\ HasClass(self.soup[i], <<"l", "e", "g", "e", "n", "d">>)
                    /\ HasAttr(self.soup[i], "aria-labelledby")
    IN  Ok([score |-> Pts(IF axes /\ legend THEN 3 ELSE IF axes \/ legend THEN 1 ELSE 0),
            axes |-> axes, legend |-> legend])

IsSorted(s) == \A i \in 1..(Len(s) - 1) : s[i] <= s[i + 1]

check_tabindex_order(self) ==
    LET Tabs(found) ==
            AllOrFirstError([i \in 1..Len(found) |->
                               ParseInt(self.soup[found[i]].attrs["tabindex"])])
        Scored(tabs, seq) == Ok([score |-> Pts(IF seq THEN 3 ELSE 0), order |-> tabs])
        Result(parsed) ==
            IF ~parsed.ok THEN parsed
            ELSE Scored(parsed.val,
                        IF parsed.val # <<>> THEN IsSorted(parsed.val) ELSE FALSE)
    IN  Result(Tabs(InOrder(FindAll(self.soup, LAMBDA e : HasAttr(e, "tabindex")))))

ScreenReader_run_all(self) ==
    PillarResult(<< <<"alt_text", has_alt_text(self)>>,
                    <<"aria_roles", aria_roles(self)>>,
                    <<"semantic_table", semantic_table(self)>>,
                    <<"heading_structure", heading_structure(self)>>,
                    <<"textual_equivalents", check_textual_equivalents(self)>>,
                    <<"tabindex_order", check_tabindex_order(self)>> >>, 18)

\* -------------------------------------------------------- Cognitive pillar
\* CognitiveAccessibility.__init__: self.elements = elements or {}.
CognitiveAccessibility(elements) == Ok([kind |-> "cognitive", elements |-> elements])

\* Mutant: the two scores are added and not averaged.
element_count_sum(self) ==
    LET s == Get(self.elements, "series", 0)
        g == Get(self.elements, "gridlines", 0)
        ss == IF s = 1 THEN 3 ELSE IF s <= 12 THEN 2 ELSE IF s <= 20 THEN 1 ELSE 0
        gs == IF g <= 1 THEN 3 ELSE IF g <= 3 THEN 2 ELSE IF g <= 5 THEN 1 ELSE 0
    IN  Ok([series_score |-> ss, gridlines_score |-> gs, score |-> Pts(ss + gs)])

element_count(self) ==
    LET s == Get(self.elements, "series", 0)
        g == Get(self.elements, "gridlines", 0)
        ss == IF s = 1 THEN 3 ELSE IF s <= 12 THEN 2 ELSE IF s <= 20 THEN 1 ELSE 0
        gs == IF g <= 1 THEN 3 ELSE IF g <= 3 THEN 2 ELSE IF g <= 5 THEN 1 ELSE 0
    IN  Ok([series_score |-> ss, gridlines_score |-> gs,
            score |-> Pts(ss + gs) \div 2])

legend_entries(self) ==
    LET c == Get(self.elements, "legend_entries", 0)
    IN  Ok([count |-> c,
            score |-> Pts(IF c <= 4 THEN 3 ELSE IF c <= 6 THEN 2 ELSE IF c <= 8 THEN 1 ELSE 0)])

encoding_complexity(self) ==
    LET e == Get(self.elements, "encodings", 0)
    IN  Ok([encodings |-> e, score |-> Pts(IF e <= 2 THEN 3 ELSE 0)])

Letters == {"a", "b", "c", "d", "e", "f", "g", "h", "i", "j", "k", "l", "m",
            "n", "o", "p", "q", "r", "s", "t", "u", "v", "w", "x", "y", "z",
            "A", "B", "C", "D", "E", "F", "G", "H", "I", "J", "K", "L", "M",
            "N", "O", "P", "Q", "R", "S", "T", "U", "V", "W", "X", "Y", "Z"}

whitelist == {<<"Q", "1">>, <<"Q", "2">>, <<"Q", "3">>, <<"Q", "4">>, <<"U", "S", "D">>, <<"E", "U", "R">>}

\* re.fullmatch(r"[A-Za-z]{1,3}", lbl)
IsShortWord(lbl) ==
    Len(lbl) \in 1..3 /\ \A i \in 1..Len(lbl) : lbl[i] \in Letters

labeling_clarity(self) ==
    LET labels == Get(self.elements, "labels", <<>>)
        unclear == \E i \in 1..Len(labels) :
                      \/ Len(labels[i]) > 20
                      \/ (IsShortWord(labels[i]) /\ labels[i] \notin whitelist)
    IN  Ok([total_labels |-> Len(labels), score |-> Pts(IF unclear THEN 0 ELSE 3)])

check_visual_grouping(chart_html) ==
    LET grp == \E i \in 1..Len(chart_html) : HasClass(chart_html[i], <<"g", "r", "o", "u", "p">>)
    IN  Ok([score |-> Pts(IF grp THEN 3 ELSE 0),
            message |-> IF grp THEN "Grouping" ELSE "No grouping"])

\* visual_grouping reads the markup from self.elements (chart_elements).
Cognitive_run_all(self) ==
    PillarResult(<< <<"element_count", element_count(self)>>,
                    <<"legend_entries", legend_entries(self)>>,
                    <<"max_encodings", encoding_complexity(self)>>,
                    <<"labeling_clarity", labeling_clarity(self)>>,
                    <<"visual_grouping",
                      check_visual_grouping(Get(self.elements, "chart_html", <<>>))>> >>, 15)

\* ------------------------------------------------------------ Motor pillar
MotorAccessibility(interactions) == Ok([kind |-> "motor", interactions |-> interactions])

\* bool(d.get(k)) of a flag that is missing, False or True.
Flag(d, k) == Get(d, k, FALSE)

Supported(flag) == Ok([score |-> Pts(IF flag THEN 3 ELSE 0), supported |-> flag])

keyboard_support(self) == Supported(Flag(self.interactions, "keyboard"))

hover_alternatives(self) == Supported(Flag(self.interactions, "hover_alternatives"))

MinTouchTarget == 44

\* Mutant: a target passes only above the minimum (s > 44).
touch_targets_above_minimum(self) ==
    LET sizes == Get(self.interactions, "touch_targets", <<>>)
        passed == Cardinality({i \in 1..Len(sizes) : sizes[i] > MinTouchTarget})
    IN  IF sizes = <<>> THEN Ok([sizes |-> sizes, score |-> Pts(0)])
        ELSE Ok([sizes |-> sizes, pass_rate |-> RatePct(passed, Len(sizes)),
                 score |-> Pts(RateScore(passed, Len(sizes)))])

touch_targets(self) ==
    LET sizes == Get(self.interactions, "touch_targets", <<>>)
        passed == Cardinality({i \in 1..Len(sizes) : sizes[i] >= MinTouchTarget})
    IN  IF sizes = <<>> THEN Ok([sizes |-> sizes, score |-> Pts(0)])
        ELSE Ok([sizes |-> sizes, pass_rate |-> RatePct(passed, Len(sizes)),
                 score |-> Pts(RateScore(passed, Len(sizes)))])

focus_indicators(self) == Supported(Flag(self.interactions, "focus_indicators"))

\* "a.skip, a[id*=skip], a[class*=skip-link], a[href^='#skip']"
IsSkipLink(e) ==
    /\ NameIs(e, <<"a">>)
    /\ \/ HasClass(e, <<"s", "k", "i", "p">>)
       \/ HasAttr(e, "id") /\ Contains(e.attrs["id"], <<"s", "k", "i", "p">>)
       \/ HasAttr(e, "class") /\ Contains(e.attrs["class"], <<"s", "k", "i", "p", "-", "l", "i", "n", "k">>)
       \/ HasAttr(e, "href") /\ StartsWith(e.attrs["href"], <<"#", "s", "k", "i", "p">>)

check_skip_links(self) ==
    LET html == Get(self.interactions, "html", <<>>)
        skip == \E i \in 1..Len(html) : IsSkipLink(html[i])
    IN  Ok([score |-> Pts(IF skip THEN 3 ELSE 0),
            message |-> IF skip THEN "Skip links present" ELSE "No skip links"])

\* Mutant: max_score copied from the screen-reader pillar.
Motor_run_all_max18(self) ==
    PillarResult(<< <<"keyboard_support", keyboard_support(self)>>,
                    <<"hover_alternatives", hover_alternatives(self)>>,
                    <<"touch_targets", touch_targets(self)>>,
                    <<"focus_indicators", focus_indicators(self)>>,
                    <<"skip_links", check_skip_links(self)>> >>, 18)

Motor_run_all(self) ==
    PillarResult(<< <<"keyboard_support", keyboard_support(self)>>,
                    <<"hover_alternatives", hover_alternatives(self)>>,
                    <<"touch_targets", touch_targets(self)>>,
                    <<"focus_indicators", focus_indicators(self)>>,
                    <<"skip_links", check_skip_links(self)>> >>, 15)

\* ------------------------------------------------------- Responsive pillar
ResponsiveAccessibility(props) == Ok([kind |-> "responsive", props |-> props])

zoom_support(self) == Supported(Flag(self.props, "zoom_200"))
responsive_layout(self) == Supported(Flag(self.props, "responsive"))
text_scaling(self) == Supported(Flag(self.props, "text_scaling"))
vector_graphics(self) == Supported(Flag(self.props, "svg"))
mobile_variant(self) == Supported(Flag(self.props, "mobile_variant"))

check_zoom_tested(self) ==
    LET tested == Flag(self.props, "zoom_tested")
    IN  Ok([score |-> Pts(IF tested THEN 3 ELSE 0), tested |-> tested])

\* re.compile(r"font-size:\s*\d+px") searched in a style value.
HasPxFontSize(s) ==
    \E i \in 1..Len(s) : \E j \in (i + 10)..Len(s) : \E k \in (j + 1)..Len(s) :
        /\ StartsWithAt(s, <<"f", "o", "n", "t", "-", "s", "i", "z", "e", ":">>, i)
        /\ \A m \in (i + 10)..(j - 1) : IsWs(s[m])
        /\ \A m \in j..(k - 1) : IsDigit(s[m])
        /\ StartsWithAt(s, <<"p", "x">>, k)

check_font_scaling(chart_html) ==
    LET inline_px == FindAll(chart_html,
                             LAMBDA e : HasAttr(e, "style") /\ HasPxFontSize(e.attrs["style"]))
    IN  Ok([score |-> Pts(IF inline_px # {} THEN 0 ELSE 3),
            px_found |-> Cardinality(inline_px)])

Responsive_run_all(self) ==
    PillarResult(<< <<"zoom_support", zoom_support(self)>>,
                    <<"responsive_layout", responsive_layout(self)>>,
                    <<"text_scaling", text_scaling(self)>>,
                    <<"vector_graphics", vector_graphics(self)>>,
                    <<"mobile_variant", mobile_variant(self)>>,
                    <<"zoom_tested", check_zoom_tested(self)>>,
                    <<"font_scaling",
                      check_font_scaling(Get(self.props, "chart_html", <<>>))>> >>, 21)

\* ------------------------------------------------------------ input domains
Rep(ch, n) == [i \in 1..n |-> ch]

\* Colors: well-formed ones (with and without '#', both letter cases, a
\* dark gray in the linear range of chan) and malformed ones (too short,
\* a letter that is no hex digit, two '#', eight hex digits, empty).
Black == <<"#", "0", "0", "0", "0", "0", "0">>
White == <<"#", "f", "f", "f", "f", "f", "f">>
WhiteBare == <<"F", "F", "F", "F", "F", "F">>
Red == <<"#", "f", "f", "0", "0", "0", "0">>
DarkGray == <<"#", "0", "a", "0", "a", "0", "a">>
ShortColor == <<"#", "f", "f", "f">>
NonHexColor == <<"#", "g", "g", "g", "g", "g", "g">>
TwoHashColor == <<"#", "#", "0", "0", "0", "0", "0", "0">>
LongColor == <<"#", "0", "0", "0", "0", "0", "0", "0", "0">>
EmptyColor == <<>>

GoodColors == {Black, White, WhiteBare, Red, DarkGray}
BadColors == {ShortColor, NonHexColor, TwoHashColor, LongColor, EmptyColor}
ColorPool == GoodColors \cup BadColors

\* Longer palettes, whose pass rates against white are 0.75, 0.9, 0.7 and 0.4.
LongPalettes ==
    {Rep(Black, 3) \o <<White>>, Rep(Black, 9) \o <<White>>,
     Rep(Black, 7) \o Rep(White, 3), Rep(Black, 2) \o Rep(White, 3)}

Palettes == SeqsUpTo(ColorPool, MaxPalette) \cup LongPalettes

\* Markup elements, one for each structure a check looks for, among them
\* attribute values no check can parse.
ElImg == Elem(<<"i", "m", "g">>, [a \in {"alt"} |-> <<"S", "a", "l", "e", "s">>], 0, <<>>)
ElDesc == Elem(<<"d", "e", "s", "c">>, NoAttrs, 0, Rep("x", 50))
ElRole == Elem(<<"d", "i", "v">>, [a \in {"role", "aria-label", "aria-describedby", "tabindex"} |->
                        IF a = "tabindex" THEN <<"2">> ELSE <<"i", "m", "g">>], 0, <<>>)
ElTable == Elem(<<"t", "a", "b", "l", "e">>, NoAttrs, 0, <<>>)
ElTh == Elem(<<"t", "h">>, NoAttrs, 1, <<>>)
ElCaption == Elem(<<"c", "a", "p", "t", "i", "o", "n">>, NoAttrs, 1, <<>>)
ElH1 == Elem(<<"h", "1">>, NoAttrs, 0, <<>>)
ElH3 == Elem(<<"h", "3">>, NoAttrs, 0, <<>>)
ElCustomH == Elem(<<"x", "h", "2">>, NoAttrs, 0, <<>>)
ElAxis == Elem(<<"g">>, [a \in {"class", "aria-labelledby"} |->
                      IF a = "class" THEN <<"a", "x", "i", "s", " ", "l", "a", "b", "e", "l">> ELSE <<"t", "1">>], 0, <<>>)
ElLegend == Elem(<<"g">>, [a \in {"class", "aria-labelledby", "tabindex"} |->
                        IF a = "class" THEN <<"l", "e", "g", "e", "n", "d", " ", "g", "r", "o", "u", "p">>
                        ELSE IF a = "tabindex" THEN <<"1">> ELSE <<"t", "2">>], 0, <<>>)
ElEmptyTab == Elem(<<"d", "i", "v">>, [a \in {"tabindex"} |-> <<>>], 0, <<>>)
ElSkip == Elem(<<"a">>, [a \in {"href", "style"} |->
                      IF a = "href" THEN <<"#", "s", "k", "i", "p", "-", "n", "a", "v">> ELSE <<"f", "o", "n", "t", "-", "s", "i", "z", "e", ":", " ", "1", "2", "p", "x">>], 0, <<>>)

ElemPool == {ElImg, ElDesc, ElRole, ElTable, ElTh, ElCaption, ElH1, ElH3,
             ElCustomH, ElAxis, ElLegend, ElEmptyTab, ElSkip}

\* Documents: every element's parent comes before it.
Docs == {d \in SeqsUpTo(ElemPool, MaxElems) : \A i \in 1..Len(d) : d[i].parent < i}

\* The markup handed to a check as an argument or inside a mapping.
ArgDocs == {d \in Docs : Len(d) <= 1}

ElementsPool ==
    {[k \in {x \in {"series", "gridlines", "legend_entries", "encodings", "labels", "chart_html"} :
               x = "series" => s # 0} |->
        CASE k = "series" -> s
          [] k = "gridlines" -> g
          [] k = "legend_entries" -> l
          [] k = "encodings" -> e
          [] k = "labels" -> lb
          [] k = "chart_html" -> h] :
     s \in {0, 1, 12, 21}, g \in {2, 4, 6}, l \in {4, 7, 9}, e \in {2, 3},
     lb \in {<<>>, <<<<"Q", "1">>>>, <<<<"R", "e", "v", "e", "n", "u", "e">>, <<"a", "b">>>>, <<Rep("x", 21)>>},
     h \in {<<>>, <<ElLegend>>}}

TargetSizes == {30, 44, 50}

InteractionsPool ==
    {[k \in {x \in {"keyboard", "hover_alternatives", "touch_targets", "focus_indicators", "html"} :
               x = "touch_targets" => t # <<>>} |->
        CASE k = "keyboard" -> kb
          [] k = "hover_alternatives" -> hv
          [] k = "touch_targets" -> t
          [] k = "focus_indicators" -> kb
          [] k = "html" -> h] :
     kb \in BOOLEAN, hv \in BOOLEAN, t \in SeqsUpTo(TargetSizes, MaxTargets),
     h \in {<<>>, <<ElSkip>>}}
    \cup {[k \in {"touch_targets"} |-> <<>>]}

PropsPool ==
    {[k \in {"zoom_200", "responsive", "text_scaling", "svg", "mobile_variant",
             "zoom_tested", "chart_html"} \ drop |->
        CASE k = "zoom_200" -> z
          [] k = "responsive" -> r
          [] k = "text_scaling" -> r
          [] k = "svg" -> v
          [] k = "mobile_variant" -> v
          [] k = "zoom_tested" -> z
          [] k = "chart_html" -> h] :
     z \in BOOLEAN, r \in BOOLEAN, v \in BOOLEAN,
     h \in {<<>>, <<ElSkip>>, <<ElAxis>>},
     drop \in {{}, {"svg", "chart_html"}}}

\* An optional value, and the dict made of the keys that are present.
Some(v) == [present |-> TRUE, val |-> v]
Omitted == [present |-> FALSE]
MkDict(f) == [k \in {x \in DOMAIN f : f[x].present} |-> f[k].val]
EmptyDict == [k \in {} |-> 0]

\* ------------------------------------------------------------ orchestrator
PILLARS == << <<"Color Accessibility", "color_accessibility">>,
              <<"Screen Reader Accessibility", "screen_reader_accessibility">>,
              <<"Cognitive Accessibility", "cognitive_accessibility">>,
              <<"Motor Accessibility", "motor_accessibility">>,
              <<"Responsive Accessibility", "responsive_accessibility">> >>

valid_keys == {PILLARS[i][2] : i \in 1..Len(PILLARS)}

\* An optional collection of keys: None, or the keys given.
NoneKeys == [some |-> FALSE, keys |-> {}]
Keys(S) == [some |-> TRUE, keys |-> S]
\* Python truth of None / a collection.
Truthy(x) == x.some /\ x.keys # {}

\* Mutant: a method that reads the palette consumes its first entry.
SelfAfter_palette_consumed(self, method) ==
    IF "palette" \in DOMAIN self /\ Len(self.palette) > 0
    THEN [self EXCEPT !.palette = Tail(self.palette)]
    ELSE self

\* What each method leaves in self: no method of the five classes assigns
\* to an attribute of self or changes a value it holds.
SelfAfter(self, method) == self

\* The evaluator a pillar's lambda constructs from its slice of cfg.
pillar_evaluator(pkey, cfg) ==
    CASE pkey = "color_accessibility" ->
           IF "palette" \notin DOMAIN cfg THEN Raise("KeyError", "palette")
           ELSE ColorAccessibility(cfg["palette"], Get(cfg, "background", White))
      [] pkey = "screen_reader_accessibility" ->
           ScreenReaderAccessibility(Get(cfg, "chart_html", <<>>))
      [] pkey = "cognitive_accessibility" ->
           CognitiveAccessibility(Get(cfg, "chart_elements", EmptyDict))
      [] pkey = "motor_accessibility" ->
           MotorAccessibility(Get(cfg, "interactions", EmptyDict))
      [] pkey = "responsive_accessibility" ->
           ResponsiveAccessibility(Get(cfg, "chart_props", EmptyDict))

\* pillar_funcs[pkey](): construct the evaluator, then run_all.
pillar_funcs(pkey, cfg) ==
    LET made == pillar_evaluator(pkey, cfg)
        self == made.val
    IN  IF ~made.ok THEN made
        ELSE CASE pkey = "color_accessibility" ->
                    Color_run_all(self, Get(cfg, "has_patterns", FALSE),
                                  Get(cfg, "alt_palettes", <<>>), Get(cfg, "chart_html", <<>>))
               [] pkey = "screen_reader_accessibility" -> ScreenReader_run_all(self)
               [] pkey = "cognitive_accessibility" -> Cognitive_run_all(self)
               [] pkey = "motor_accessibility" -> Motor_run_all(self)
               [] pkey = "responsive_accessibility" -> Responsive_run_all(self)

\* The second half of pillar_funcs[pkey](): run_all on the evaluator made.
pillar_run_all(pkey, self, cfg) ==
    CASE pkey = "color_accessibility" ->
           Color_run_all(self, Get(cfg, "has_patterns", FALSE),
                         Get(cfg, "alt_palettes", <<>>), Get(cfg, "chart_html", <<>>))
      [] pkey = "screen_reader_accessibility" -> ScreenReader_run_all(self)
      [] pkey = "cognitive_accessibility" -> Cognitive_run_all(self)
      [] pkey = "motor_accessibility" -> Motor_run_all(self)
      [] pkey = "responsive_accessibility" -> Responsive_run_all(self)

\* Mutant: the color lambda takes the markup with cfg.pop("chart_html", "").
cfg_after_markup_popped(pkey, cfg) ==
    IF pkey = "color_accessibility"
    THEN [k \in DOMAIN cfg \ {"chart_html"} |-> cfg[k]]
    ELSE cfg

\* cfg after pillar_funcs[pkey](): the evaluators hold the palette list and
\* the chart_elements / interactions / chart_props dicts of cfg themselves
\* (not copies), so cfg shows whatever run_all leaves in them.
cfg_after(pkey, cfg) ==
    LET made == pillar_evaluator(pkey, cfg)
        self == SelfAfter(made.val, "run_all")
    IN  IF ~made.ok THEN cfg
        ELSE CASE pkey = "color_accessibility" -> [cfg EXCEPT !["palette"] = self.palette]
               [] pkey = "cognitive_accessibility" /\ "chart_elements" \in DOMAIN cfg ->
                    [cfg EXCEPT !["chart_elements"] = self.elements]
               [] pkey = "motor_accessibility" /\ "interactions" \in DOMAIN cfg ->
                    [cfg EXCEPT !["interactions"] = self.interactions]
               [] pkey = "responsive_accessibility" /\ "chart_props" \in DOMAIN cfg ->
                    [cfg EXCEPT !["chart_props"] = self.props]
               [] OTHER -> cfg

\* The entry the except branch of run_checks stores; error is str(e).
DegradedEntry(err) ==
    [summary |-> [total_score |-> 0, max_score |-> 0, percentage |-> 0, grade |-> "Error"],
     checks  |-> EmptyDict,
     error   |-> err]

\* Mutant: the except branch only prints the error.
report_after_fault_only_logged(rep, pkey, err) == rep

\* report[pkey] = {...}: what the except branch leaves in the report.
report_after_fault(rep, pkey, err) == (pkey :> DegradedEntry(err)) @@ rep

\* Mutant: "if pillars_to_run is None or pkey in pillars_to_run".
Selected_unless_none(pkey, pillars) == ~pillars.some \/ pkey \in pillars.keys

\* if not pillars_to_run or pkey in pillars_to_run
Selected(pkey, pillars) == ~Truthy(pillars) \/ pkey \in pillars.keys

\* ----------------------------------------------------- audit input domains
KeyPool == valid_keys \cup {"nonexistent"}
Requests == {NoneKeys} \cup {Keys(S) : S \in SUBSET KeyPool}

AuditElements ==
    [series |-> 1, gridlines |-> 2, legend_entries |-> 5, encodings |-> 2,
     labels |-> <<<<"Q", "1">>, <<"R", "e", "v", "e", "n", "u", "e">>>>, chart_html |-> <<ElLegend>>]
AuditInteractions ==
    [keyboard |-> TRUE, hover_alternatives |-> FALSE, touch_targets |-> <<50, 30>>,
     focus_indicators |-> TRUE, html |-> <<ElSkip>>]
AuditProps ==
    [zoom_200 |-> TRUE, responsive |-> TRUE, text_scaling |-> FALSE, svg |-> TRUE,
     mobile_variant |-> FALSE, zoom_tested |-> TRUE, chart_html |-> <<ElSkip>>]

\* Configurations for an audit: no palette, an empty one, a good one, one
\* with a malformed color, a good one on a malformed background; markup
\* that parses everywhere and markup with an empty tabindex;
\* chart_elements present or left out, and so interactions together with
\* chart_props.
AuditColors ==
    {[palette |-> Omitted, background |-> Omitted],
     [palette |-> Some(<<>>), background |-> Omitted],
     [palette |-> Some(<<Black, White>>), background |-> Omitted],
     [palette |-> Some(<<White, ShortColor, NonHexColor>>), background |-> Omitted],
     [palette |-> Some(<<Black>>), background |-> Some(TwoHashColor)]}

AuditConfigs ==
    {MkDict([k \in {"palette", "background", "chart_html", "chart_elements",
                    "interactions", "chart_props"} |->
               CASE k = "palette" -> c.palette
                 [] k = "background" -> c.background
                 [] k = "chart_html" -> h
                 [] k = "chart_elements" -> e
                 [] k = "interactions" -> IF m THEN Some(AuditInteractions) ELSE Omitted
                 [] k = "chart_props" -> IF m THEN Some(AuditProps) ELSE Omitted]) :
     c \in AuditColors,
     h \in {Some(<<ElAxis, ElLegend>>), Some(<<ElEmptyTab>>)},
     e \in {Omitted, Some(AuditElements)},
     m \in BOOLEAN}

\* ------------------------------------------------------------------ state
VARIABLES
    entry,          \* how the program is used: "main", "run_checks", "evaluator"
    cfg,            \* the loaded configuration
    request,        \* args.pillars / the caller's pillars_to_run
    pillars_to_run, \* run_checks' parameter
    pc,             \* "start", "call", "loop", "done", "exit", "idle"
    idx,            \* position of the for loop of run_checks in PILLARS
    report,         \* run_checks' report
    invoked,        \* the pillar keys whose lambda was called in this run
    stderr,         \* what was printed to sys.stderr
    runs,           \* how many times run_checks was called on cfg
    first_report,   \* the report of the first of these calls
    stdout,         \* the outcome of printing the report
    ev,             \* a pillar evaluator held by a caller of a11y_trees
    call,           \* the last call made on it: method and arguments
    res,            \* the outcome of that call
    ncalls,         \* how many times that call was made in a row
    first           \* the outcome of the first of them

audit_vars == <<entry, cfg, request, pillars_to_run, pc, idx, report, invoked,
                stderr, runs, first_report, stdout>>
eval_vars == <<ev, call, res, ncalls, first>>
vars == <<entry, cfg, request, pillars_to_run, pc, idx, report, invoked,
          stderr, runs, first_report, stdout, ev, call, res, ncalls, first>>

NoEvaluator == [kind |-> "none"]
NoCall == [method |-> "none"]
NoOutcome == [ok |-> FALSE, err |-> [type |-> "none", arg |-> <<>>]]

ReportHeader(c) == [k \in {"viz_id", "viz_name"} |->
                      IF k = "viz_id" THEN Get(c, "viz_id", "Unknown")
                      ELSE Get(c, "name", "Unnamed Visualization")]

\* run_checks as a function of its arguments: the for loop from position i.
RECURSIVE run_checks_from(_, _, _, _)
run_checks_from(i, rep, c, pillars) ==
    IF i > Len(PILLARS) THEN rep
    ELSE IF ~Selected(PILLARS[i][2], pillars) THEN run_checks_from(i + 1, rep, c, pillars)
    ELSE LET Turn(out) ==
                 IF out.ok THEN (PILLARS[i][2] :> out.val) @@ rep
                 ELSE report_after_fault(rep, PILLARS[i][2], out.err)
         IN  run_checks_from(i + 1, Turn(pillar_funcs(PILLARS[i][2], c)),
                             cfg_after(PILLARS[i][2], c), pillars)

run_checks(c, pillars) == run_checks_from(1, ReportHeader(c), c, pillars)

\* f"{summary['percentage']:.0f}": a percentage in tenths to the nearest
\* integer, a half going to the even one.
FormatPercentage(p) ==
    IF p % 10 < 5 THEN p \div 10
    ELSE IF p % 10 > 5 THEN p \div 10 + 1
    ELSE IF (p \div 10) % 2 = 0 THEN p \div 10 ELSE p \div 10 + 1

\* The lines printed for the checks of one pillar (lines 70-76).
CheckLines(checks) ==
    {[status |-> IF checks[n].score >= Pts(2) THEN "pass" ELSE "fail",
      name   |-> n,
      score  |-> checks[n].score,
      msg    |-> Get(checks[n], "message", "")] : n \in DOMAIN checks}

\* The for loop of print_text_report from position i (lines 62-84); acc holds
\* the lines printed so far, total_score, total_max and critical_failures.
\* report[pillar_key] of a pillar that is not in the report raises KeyError.
RECURSIVE print_pillars_from(_, _, _)
print_pillars_from(i, rep, acc) ==
    IF i > Len(PILLARS) THEN Ok(acc)
    ELSE IF PILLARS[i][2] \notin DOMAIN rep THEN Raise("KeyError", PILLARS[i][2])
    ELSE LET Printed(pillar_title, pillar_data) ==
                 [lines |-> Append(acc.lines,
                                   [title       |-> pillar_title,
                                    total_score |-> pillar_data.summary.total_score,
                                    max_score   |-> pillar_data.summary.max_score,
                                    percentage  |-> FormatPercentage(pillar_data.summary.percentage),
                                    grade       |-> pillar_data.summary.grade,
                                    checks      |-> CheckLines(pillar_data.checks)]),
                  total_score |-> acc.total_score + pillar_data.summary.total_score,
                  total_max   |-> acc.total_max + pillar_data.summary.max_score,
                  critical_failures |->
                      acc.critical_failures \cup
                      {<<pillar_title, n>> : n \in {m \in DOMAIN pillar_data.checks :
                                                       pillar_data.checks[m].score = 0}}]
         IN  print_pillars_from(i + 1, rep, Printed(PILLARS[i][1], rep[PILLARS[i][2]]))

\* print_text_report, lines 52-96: what is printed, or the fault that ends
\* it. overall_pct is in tenths and overall_rating in hundredths.
print_text_report(rep, viz_name) ==
    LET Overall(out) ==
            IF ~out.ok THEN out
            ELSE IF out.val.total_max = 0 THEN Raise("ZeroDivisionError", <<>>)
            ELSE Ok([format            |-> "text",
                     viz_name          |-> viz_name,
                     lines             |-> out.val.lines,
                     total_score       |-> out.val.total_score,
                     total_max         |-> out.val.total_max,
                     overall_pct       |-> RoundDiv(1000 * out.val.total_score, out.val.total_max),
                     overall_rating    |-> RoundDiv(300 * out.val.total_score, out.val.total_max),
                     critical_failures |-> out.val.critical_failures])
    IN  Overall(print_pillars_from(1, rep, [lines |-> <<>>, total_score |-> 0, total_max |-> 0,
                                            critical_failures |-> {}]))

InitAudit ==
    /\ entry \in {"main", "run_checks"}
    /\ cfg \in AuditConfigs
    /\ request \in Requests
    /\ pillars_to_run = IF entry = "run_checks" THEN request ELSE NoneKeys
    /\ pc = IF entry = "run_checks" THEN "call" ELSE "start"
    /\ idx = 0
    /\ report = EmptyDict
    /\ invoked = {}
    /\ stderr = <<>>
    /\ stdout = NoOutcome
    /\ runs = 0
    /\ first_report = EmptyDict
    /\ ev = NoEvaluator
    /\ call = NoCall
    /\ res = NoOutcome
    /\ ncalls = 0
    /\ first = NoOutcome

\* main, lines 138-147: the check of args.pillars before run_checks.
MainRejects ==
    /\ entry = "main" /\ pc = "start"
    /\ Truthy(request)
    /\ request.keys \ valid_keys # {}
    /\ stderr' = Append(stderr, [text |-> "Unknown pillars requested",
                                 arg |-> request.keys \ valid_keys])
    /\ pc' = "exit"
    /\ UNCHANGED <<entry, cfg, request, pillars_to_run, idx, report, invoked,
                   runs, first_report>>
    /\ UNCHANGED eval_vars
    /\ UNCHANGED stdout

MainAccepts ==
    /\ entry = "main" /\ pc = "start"
    /\ ~(Truthy(request) /\ request.keys \ valid_keys # {})
    /\ pillars_to_run' = IF Truthy(request) THEN request ELSE NoneKeys
    /\ pc' = "call"
    /\ UNCHANGED <<entry, cfg, request, idx, report, invoked, stderr, runs, first_report>>
    /\ UNCHANGED eval_vars
    /\ UNCHANGED stdout

\* run_checks, lines 100-121: a new report; nothing is evaluated yet.
RunChecksBegin ==
    /\ pc = "call"
    /\ report' = ReportHeader(cfg)
    /\ invoked' = {}
    /\ idx' = 1
    /\ runs' = runs + 1
    /\ pc' = "loop"
    /\ UNCHANGED <<entry, cfg, request, pillars_to_run, stderr, first_report>>
    /\ UNCHANGED eval_vars
    /\ UNCHANGED stdout

\* One turn of the for loop for a pillar that is not selected.
SkipPillar ==
    /\ pc = "loop" /\ idx <= Len(PILLARS)
    /\ ~Selected(PILLARS[idx][2], pillars_to_run)
    /\ idx' = idx + 1
    /\ UNCHANGED <<entry, cfg, request, pillars_to_run, pc, report, invoked,
                   stderr, runs, first_report>>
    /\ UNCHANGED eval_vars
    /\ UNCHANGED stdout

\* One turn for a selected pillar whose lambda returns.
RunPillar ==
    /\ pc = "loop" /\ idx <= Len(PILLARS)
    /\ LET Returned(pkey, out) ==
               /\ Selected(pkey, pillars_to_run)
               /\ out.ok
               /\ report' = (pkey :> out.val) @@ report
               /\ invoked' = invoked \cup {pkey}
               /\ cfg' = cfg_after(pkey, cfg)
       IN  Returned(PILLARS[idx][2], pillar_funcs(PILLARS[idx][2], cfg))
    /\ idx' = idx + 1
    /\ UNCHANGED <<entry, request, pillars_to_run, pc, stderr, runs, first_report>>
    /\ UNCHANGED eval_vars
    /\ UNCHANGED stdout

\* One turn for a selected pillar whose lambda raises: the except branch.
FailPillar ==
    /\ pc = "loop" /\ idx <= Len(PILLARS)
    /\ LET Raised(pkey, out) ==
               /\ Selected(pkey, pillars_to_run)
               /\ ~out.ok
               /\ report' = report_after_fault(report, pkey, out.err)
               /\ invoked' = invoked \cup {pkey}
               /\ stderr' = Append(stderr, [text |-> "[ERROR]", arg |-> <<PILLARS[idx][1], out.err>>])
               /\ cfg' = cfg_after(pkey, cfg)
       IN  Raised(PILLARS[idx][2], pillar_funcs(PILLARS[idx][2], cfg))
    /\ idx' = idx + 1
    /\ UNCHANGED <<entry, request, pillars_to_run, pc, runs, first_report>>
    /\ UNCHANGED eval_vars
    /\ UNCHANGED stdout

\* return report
RunChecksReturn ==
    /\ pc = "loop" /\ idx = Len(PILLARS) + 1
    /\ pc' = "done"
    /\ first_report' = IF runs = 1 THEN report ELSE first_report
    /\ UNCHANGED <<entry, cfg, request, pillars_to_run, idx, report, invoked, stderr, runs>>
    /\ UNCHANGED eval_vars
    /\ UNCHANGED stdout

\* The caller of run_checks calls it again with the same arguments.
RunChecksAgain ==
    /\ entry = "run_checks" /\ pc = "done"
    /\ runs < MaxRuns
    /\ pc' = "call"
    /\ UNCHANGED <<entry, cfg, request, pillars_to_run, idx, report, invoked, stderr,
                   runs, first_report>>
    /\ UNCHANGED eval_vars
    /\ UNCHANGED stdout

\* main, lines 152-168, or the caller of run_checks: the report is printed
\* as JSON or handed to print_text_report.
PrintReport ==
    /\ pc = "done"
    /\ \E format \in {"json", "text"} :
          stdout' = IF format = "json" THEN Ok([format |-> "json", report |-> report])
                    ELSE print_text_report(report, report["viz_name"])
    /\ pc' = "printed"
    /\ UNCHANGED <<entry, cfg, request, pillars_to_run, idx, report, invoked, stderr,
                   runs, first_report>>
    /\ UNCHANGED eval_vars

NextAudit ==
    \/ MainRejects
    \/ MainAccepts
    \/ RunChecksBegin
    \/ SkipPillar
    \/ RunPillar
    \/ FailPillar
    \/ RunChecksReturn
    \/ RunChecksAgain
    \/ PrintReport

SpecAudit == InitAudit /\ [][NextAudit]_vars

\* --------------------------------------- the pillar lambdas in any order
\* The steps of run_checks' loop body, taken in any order and interleaved:
\* for each selected pillar the evaluator is constructed (ev[pkey]), later
\* its run_all runs and the report entry is stored. cfg is the one object
\* all of them read.
TitleOf(pkey) == PILLARS[CHOOSE i \in 1..Len(PILLARS) : PILLARS[i][2] = pkey][1]

OrderRequests == {NoneKeys} \cup {Keys(S) : S \in SUBSET valid_keys}

InitOrder ==
    /\ entry = "any_order"
    /\ cfg \in AuditConfigs
    /\ request \in OrderRequests
    /\ pillars_to_run = request
    /\ pc = "loop"
    /\ idx = 0
    /\ report = ReportHeader(cfg)
    /\ invoked = {}
    /\ stderr = <<>>
    /\ stdout = NoOutcome
    /\ runs = 1
    /\ first_report = EmptyDict
    /\ ev = EmptyDict
    /\ call = NoCall
    /\ res = NoOutcome
    /\ ncalls = 0
    /\ first = NoOutcome

\* The constructor call of one pillar's lambda.
ConstructPillar ==
    /\ pc = "loop"
    /\ \E pkey \in valid_keys \ DOMAIN ev :
          /\ Selected(pkey, pillars_to_run)
          /\ ev' = (pkey :> pillar_evaluator(pkey, cfg)) @@ ev
    /\ UNCHANGED audit_vars
    /\ UNCHANGED <<call, res, ncalls, first>>

\* run_all of a constructed evaluator returns: report[pkey] = ...
PillarReturns ==
    /\ pc = "loop"
    /\ \E pkey \in DOMAIN ev \ invoked :
          /\ ev[pkey].ok
          /\ LET Returned(out) ==
                     /\ out.ok
                     /\ report' = (pkey :> out.val) @@ report
             IN  Returned(pillar_run_all(pkey, ev[pkey].val, cfg))
          /\ invoked' = invoked \cup {pkey}
          /\ cfg' = cfg_after(pkey, cfg)
    /\ UNCHANGED <<entry, request, pillars_to_run, pc, idx, stderr, runs, first_report>>
    /\ UNCHANGED eval_vars
    /\ UNCHANGED stdout

\* The constructor or run_all raised: the except branch.
PillarRaises ==
    /\ pc = "loop"
    /\ \E pkey \in DOMAIN ev \ invoked :
          /\ LET Raised(out) ==
                     /\ ~out.ok
                     /\ report' = report_after_fault(report, pkey, out.err)
                     /\ stderr' = Append(stderr, [text |-> "[ERROR]",
                                                  arg |-> <<TitleOf(pkey), out.err>>])
             IN  Raised(IF ev[pkey].ok THEN pillar_run_all(pkey, ev[pkey].val, cfg)
                        ELSE ev[pkey])
          /\ invoked' = invoked \cup {pkey}
          /\ cfg' = cfg_after(pkey, cfg)
    /\ UNCHANGED <<entry, request, pillars_to_run, pc, idx, runs, first_report>>
    /\ UNCHANGED eval_vars
    /\ UNCHANGED stdout

\* Every selected pillar has stored its entry: return report.
AllReturned ==
    /\ pc = "loop"
    /\ \A pkey \in valid_keys : Selected(pkey, pillars_to_run) => pkey \in invoked
    /\ pc' = "done"
    /\ UNCHANGED <<entry, cfg, request, pillars_to_run, idx, report, invoked, stderr,
                   runs, first_report>>
    /\ UNCHANGED eval_vars
    /\ UNCHANGED stdout

NextOrder ==
    \/ ConstructPillar
    \/ PillarReturns
    \/ PillarRaises
    \/ AllReturned

SpecOrder == InitOrder /\ [][NextOrder]_vars

\* ------------------------------------------------- calls on one evaluator
CheckNames(kind) ==
    CASE kind = "color" ->
           {"check_palette_safety", "check_background_contrast", "check_adjacent_contrast",
            "check_grayscale", "check_pattern_encoding", "check_alt_theme",
            "check_direct_labels"}
      [] kind = "screen_reader" ->
           {"has_alt_text", "aria_roles", "semantic_table", "heading_structure",
            "check_textual_equivalents", "check_tabindex_order"}
      [] kind = "cognitive" ->
           {"element_count", "legend_entries", "encoding_complexity", "labeling_clarity",
            "check_visual_grouping"}
      [] kind = "motor" ->
           {"keyboard_support", "hover_alternatives", "touch_targets", "focus_indicators",
            "check_skip_links"}
      [] kind = "responsive" ->
           {"zoom_support", "responsive_layout", "text_scaling", "vector_graphics",
            "mobile_variant", "check_zoom_tested", "check_font_scaling"}
      [] OTHER -> {}

\* The arguments of the methods that take any; the others get DefaultArgs.
DefaultArgs == [has_patterns |-> FALSE, alt_palettes |-> <<>>, chart_html |-> <<>>]
AltPalettePool == {<<>>, << <<Black, White>> >>}

ArgsFor(kind, method) ==
    CASE method = "check_pattern_encoding" ->
           {[DefaultArgs EXCEPT !.has_patterns = b] : b \in BOOLEAN}
      [] method = "check_alt_theme" ->
           {[DefaultArgs EXCEPT !.alt_palettes = a] : a \in AltPalettePool}
      [] method \in {"check_direct_labels", "check_visual_grouping", "check_font_scaling"} ->
           {[DefaultArgs EXCEPT !.chart_html = d] : d \in ArgDocs}
      [] method = "run_all" /\ kind = "color" ->
           {[has_patterns |-> b, alt_palettes |-> a, chart_html |-> d] :
              b \in BOOLEAN, a \in AltPalettePool, d \in {<<>>, <<ElAxis>>}}
      [] OTHER -> {DefaultArgs}

\* self.<method>(<args>)
Invoke(self, method, args) ==
    CASE method = "check_palette_safety" -> check_palette_safety(self)
      [] method = "check_background_contrast" -> check_background_contrast(self)
      [] method = "check_adjacent_contrast" -> check_adjacent_contrast(self)
      [] method = "check_grayscale" -> check_grayscale(self)
      [] method = "check_pattern_encoding" -> check_pattern_encoding(args.has_patterns)
      [] method = "check_alt_theme" -> check_alt_theme(args.alt_palettes)
      [] method = "check_direct_labels" -> check_direct_labels(args.chart_html)
      [] method = "has_alt_text" -> has_alt_text(self)
      [] method = "aria_roles" -> aria_roles(self)
      [] method = "semantic_table" -> semantic_table(self)
      [] method = "heading_structure" -> heading_structure(self)
      [] method = "check_textual_equivalents" -> check_textual_equivalents(self)
      [] method = "check_tabindex_order" -> check_tabindex_order(self)
      [] method = "element_count" -> element_count(self)
      [] method = "legend_entries" -> legend_entries(self)
      [] method = "encoding_complexity" -> encoding_complexity(self)
      [] method = "labeling_clarity" -> labeling_clarity(self)
      [] method = "check_visual_grouping" -> check_visual_grouping(args.chart_html)
      [] method = "keyboard_support" -> keyboard_support(self)
      [] method = "hover_alternatives" -> hover_alternatives(self)
      [] method = "touch_targets" -> touch_targets(self)
      [] method = "focus_indicators" -> focus_indicators(self)
      [] method = "check_skip_links" -> check_skip_links(self)
      [] method = "zoom_support" -> zoom_support(self)
      [] method = "responsive_layout" -> responsive_layout(self)
      [] method = "text_scaling" -> text_scaling(self)
      [] method = "vector_graphics" -> vector_graphics(self)
      [] method = "mobile_variant" -> mobile_variant(self)
      [] method = "check_zoom_tested" -> check_zoom_tested(self)
      [] method = "check_font_scaling" -> check_font_scaling(args.chart_html)
      [] method = "run_all" /\ self.kind = "color" ->
           Color_run_all(self, args.has_patterns, args.alt_palettes, args.chart_html)
      [] method = "run_all" /\ self.kind = "screen_reader" -> ScreenReader_run_all(self)
      [] method = "run_all" /\ self.kind = "cognitive" -> Cognitive_run_all(self)
      [] method = "run_all" /\ self.kind = "motor" -> Motor_run_all(self)
      [] method = "run_all" /\ self.kind = "responsive" -> Responsive_run_all(self)
      [] method = "hex_to_rgb" -> hex_to_rgb(args.hex_color)
      [] method = "contrast_ratio" -> contrast_ratio_call(args.hex1, args.hex2)

InitEval ==
    /\ entry = "evaluator"
    /\ cfg = EmptyDict
    /\ request = NoneKeys
    /\ pillars_to_run = NoneKeys
    /\ pc = "idle"
    /\ idx = 0
    /\ report = EmptyDict
    /\ invoked = {}
    /\ stderr = <<>>
    /\ stdout = NoOutcome
    /\ runs = 0
    /\ first_report = EmptyDict
    /\ ev = NoEvaluator
    /\ call = NoCall
    /\ res = NoOutcome
    /\ ncalls = 0
    /\ first = NoOutcome

\* The caller constructs an evaluator: the object, or nothing if __init__ raises.
NothingHeld == entry = "evaluator" /\ ev = NoEvaluator /\ call = NoCall

Construct(cls, args, made) ==
    /\ ev' = IF made.ok THEN made.val ELSE NoEvaluator
    /\ call' = [method |-> "__init__", cls |-> cls, args |-> args]
    /\ res' = made
    /\ first' = made
    /\ ncalls' = 1
    /\ UNCHANGED audit_vars

NewColor ==
    /\ NothingHeld
    /\ \E p \in Palettes, b \in ColorPool :
          Construct("ColorAccessibility", [palette |-> p, background |-> b],
                    ColorAccessibility(p, b))

NewScreenReader ==
    /\ NothingHeld
    /\ \E d \in Docs :
          Construct("ScreenReaderAccessibility", [chart_html |-> d],
                    ScreenReaderAccessibility(d))

NewCognitive ==
    /\ NothingHeld
    /\ \E e \in ElementsPool :
          Construct("CognitiveAccessibility", [elements |-> e], CognitiveAccessibility(e))

NewMotor ==
    /\ NothingHeld
    /\ \E i \in InteractionsPool :
          Construct("MotorAccessibility", [interactions |-> i], MotorAccessibility(i))

NewResponsive ==
    /\ NothingHeld
    /\ \E r \in PropsPool :
          Construct("ResponsiveAccessibility", [props |-> r], ResponsiveAccessibility(r))

\* The caller calls one check of the evaluator it holds.
CallCheck ==
    /\ entry = "evaluator" /\ ev # NoEvaluator /\ call.method = "__init__"
    /\ \E m \in CheckNames(ev.kind) : \E a \in ArgsFor(ev.kind, m) :
          /\ call' = [method |-> m, args |-> a]
          /\ res' = Invoke(ev, m, a)
          /\ first' = res'
          /\ ev' = SelfAfter(ev, m)
    /\ ncalls' = 1
    /\ UNCHANGED audit_vars

\* The caller calls run_all.
CallRunAll ==
    /\ entry = "evaluator" /\ ev # NoEvaluator /\ call.method = "__init__"
    /\ \E a \in ArgsFor(ev.kind, "run_all") :
          /\ call' = [method |-> "run_all", args |-> a]
          /\ res' = Invoke(ev, "run_all", a)
          /\ first' = res'
          /\ ev' = SelfAfter(ev, "run_all")
    /\ ncalls' = 1
    /\ UNCHANGED audit_vars

\* The caller repeats its last call on the same evaluator.
CallAgain ==
    /\ entry = "evaluator" /\ ev # NoEvaluator
    /\ call.method \notin {"none", "__init__"}
    /\ ncalls < MaxRuns
    /\ res' = Invoke(ev, call.method, call.args)
    /\ ev' = SelfAfter(ev, call.method)
    /\ ncalls' = ncalls + 1
    /\ UNCHANGED <<call, first>>
    /\ UNCHANGED audit_vars

\* Strings given to hex_to_rgb and contrast_ratio.
FiveDigitColor == <<"0", "0", "0", "0", "0">>
HexInputs == ColorPool \cup {FiveDigitColor}

\* The caller calls a color helper of its ColorAccessibility.
CallColorHelper ==
    /\ entry = "evaluator" /\ ev # NoEvaluator /\ call.method = "__init__"
    /\ ev.kind = "color"
    /\ \/ \E c \in HexInputs :
             /\ call' = [method |-> "hex_to_rgb", args |-> [hex_color |-> c]]
             /\ res' = Invoke(ev, "hex_to_rgb", [hex_color |-> c])
       \/ \E a \in HexInputs, b \in HexInputs :
             /\ call' = [method |-> "contrast_ratio", args |-> [hex1 |-> a, hex2 |-> b]]
             /\ res' = Invoke(ev, "contrast_ratio", [hex1 |-> a, hex2 |-> b])
    /\ first' = res'
    /\ ncalls' = 1
    /\ UNCHANGED ev
    /\ UNCHANGED audit_vars

\* The caller calls a function of utils.py; no evaluator is involved.
CallUtils ==
    /\ NothingHeld
    /\ \/ \E c \in HexInputs :
             /\ call' = [method |-> "utils.hex_to_rgb", args |-> [hex_color |-> c]]
             /\ res' = utils_hex_to_rgb(c)
       \/ \E a \in HexInputs, b \in HexInputs :
             /\ call' = [method |-> "utils.contrast_ratio", args |-> [hex1 |-> a, hex2 |-> b]]
             /\ res' = utils_contrast_ratio(a, b)
    /\ first' = res'
    /\ ncalls' = 1
    /\ UNCHANGED ev
    /\ UNCHANGED audit_vars

NextEval ==
    \/ CallColorHelper
    \/ CallUtils
    \/ NewColor
    \/ NewScreenReader
    \/ NewCognitive
    \/ NewMotor
    \/ NewResponsive
    \/ CallCheck
    \/ CallRunAll
    \/ CallAgain

SpecEval == InitEval /\ [][NextEval]_vars

\* The program under all its uses.
Init == InitAudit \/ InitEval

Next == NextAudit \/ NextEval

Spec == Init /\ [][Next]_vars

\* ================================================================= claims
KeyAt(i) == PILLARS[i][2]
PillarKeysOf(rep) == DOMAIN rep \cap valid_keys
Degraded(e) == e.summary.grade = "Error"

\* C1: fault isolation in run_checks. Every pillar the loop has run has an
\* entry under its key; the entry of a pillar whose evaluator raised is
\* total_score 0, max_score 0, grade "Error", no checks and the error; the
\* entry of every other pillar is what its own evaluator returns on cfg.
C1_FaultIsolation ==
    pc \in {"loop", "done"} =>
        \A i \in 1..Len(PILLARS) :
            (i < idx /\ Selected(KeyAt(i), pillars_to_run)) =>
                LET out == pillar_funcs(KeyAt(i), cfg)
                IN  /\ KeyAt(i) \in DOMAIN report
                    /\ IF out.ok
                       THEN report[KeyAt(i)] = out.val
                       ELSE /\ report[KeyAt(i)].summary.total_score = 0
                            /\ report[KeyAt(i)].summary.max_score = 0
                            /\ report[KeyAt(i)].summary.grade = "Error"
                            /\ DOMAIN report[KeyAt(i)].checks = {}
                            /\ report[KeyAt(i)].error = out.err

\* A returned report with a degraded entry beside an entry with results.
C1_Witness ==
    /\ pc = "done"
    /\ \E p \in PillarKeysOf(report), q \in PillarKeysOf(report) :
          Degraded(report[p]) /\ ~Degraded(report[q])

\* C2: a request that holds an unknown pillar key is rejected, and no
\* pillar's lambda is called, whether main or run_checks receives it.
C2_UnknownKeyRejected ==
    (request.some /\ request.keys \ valid_keys # {}) =>
        (invoked = {} /\ pc # "done")

\* C3, as claimed: the report of run_checks(cfg, S), S a subset of the five
\* keys, holds exactly the pillar keys of S; with None, all five.
C3_ReportKeysAreTheSubset ==
    pc = "done" =>
        /\ (pillars_to_run.some /\ pillars_to_run.keys \subseteq valid_keys)
              => PillarKeysOf(report) = pillars_to_run.keys
        /\ ~pillars_to_run.some => PillarKeysOf(report) = valid_keys

\* C3, amended: for a non-empty subset S the report holds exactly the
\* pillar keys of S; with None or an empty collection, all five.
C3_ReportKeysOfNonEmptySubset ==
    pc = "done" =>
        /\ (Truthy(pillars_to_run) /\ pillars_to_run.keys \subseteq valid_keys)
              => PillarKeysOf(report) = pillars_to_run.keys
        /\ ~Truthy(pillars_to_run) => PillarKeysOf(report) = valid_keys

\* A report for a subset of two pillars.
C3_Witness ==
    /\ pc = "done"
    /\ pillars_to_run = Keys({"color_accessibility", "motor_accessibility"})
    /\ PillarKeysOf(report) = {"color_accessibility", "motor_accessibility"}

\* Exactly six hex digits, or '#' and exactly six hex digits.
HexDigitSet == {"0", "1", "2", "3", "4", "5", "6", "7", "8", "9",
                "a", "b", "c", "d", "e", "f", "A", "B", "C", "D", "E", "F"}
WellFormedColor(c) ==
    \/ Len(c) = 6 /\ \A i \in 1..6 : c[i] \in HexDigitSet
    \/ Len(c) = 7 /\ c[1] = "#" /\ \A i \in 2..7 : c[i] \in HexDigitSet

FirstMalformed(colors) ==
    colors[CHOOSE i \in 1..Len(colors) :
              /\ ~WellFormedColor(colors[i])
              /\ \A j \in 1..(i - 1) : WellFormedColor(colors[j])]
AnyMalformed(colors) == \E i \in 1..Len(colors) : ~WellFormedColor(colors[i])

\* C4: ColorAccessibility(palette, background) raises the invalid-color
\* error exactly when an entry of palette + [background] is not six hex
\* digits with at most one leading '#'; the error names the first such
\* entry; no evaluator exists then, so every color check that computes a
\* result does so on colors that are all well-formed.
C4_InvalidColorAtConstruction ==
    /\ (call.method = "__init__" /\ call.cls = "ColorAccessibility") =>
          LET all == call.args.palette \o <<call.args.background>>
          IN  IF AnyMalformed(all)
              THEN /\ ~res.ok
                   /\ res.err = [type |-> "ValueError", arg |-> FirstMalformed(all)]
                   /\ ev = NoEvaluator
              ELSE res.ok /\ ev.kind = "color"
    /\ ev.kind = "color" => ~AnyMalformed(ev.palette \o <<ev.background>>)

\* A construction that fails on the second palette entry although the
\* background is malformed too.
C4_Witness ==
    /\ call.method = "__init__" /\ call.cls = "ColorAccessibility"
    /\ ~res.ok
    /\ Len(call.args.palette) = 2
    /\ res.err.arg = call.args.palette[2]
    /\ ~WellFormedColor(call.args.background)

ColorsOf(c) == c["palette"] \o <<Get(c, "background", White)>>
MalformedColorIn(c) == "palette" \in DOMAIN c /\ AnyMalformed(ColorsOf(c))
ColorKey == "color_accessibility"

\* C5, as claimed (for a run that includes the color pillar): with a
\* malformed color in palette or background, the audit does not return a
\* report.
C5_MalformedColorStopsTheRun ==
    (MalformedColorIn(cfg) /\ Selected(ColorKey, pillars_to_run)) => pc # "done"

\* C5, amended: a malformed color aborts the color pillar only. The report
\* is returned; its color entry is the degraded entry with the
\* invalid-color error naming the first malformed entry; the error is
\* printed to stderr; every other pillar that was run has its entry.
C5_MalformedColorDegradesColorPillar ==
    (pc = "done" /\ MalformedColorIn(cfg) /\ Selected(ColorKey, pillars_to_run)) =>
        /\ ColorKey \in DOMAIN report
        /\ Degraded(report[ColorKey])
        /\ report[ColorKey].error = [type |-> "ValueError", arg |-> FirstMalformed(ColorsOf(cfg))]
        /\ \E i \in 1..Len(stderr) :
              stderr[i] = [text |-> "[ERROR]",
                           arg |-> <<"Color Accessibility", report[ColorKey].error>>]
        /\ \A q \in valid_keys : Selected(q, pillars_to_run) => q \in DOMAIN report

\* main returns a report for a configuration with a malformed color, with
\* results for another pillar.
C5_Witness ==
    /\ entry = "main" /\ pc = "done"
    /\ MalformedColorIn(cfg)
    /\ ColorKey \in DOMAIN report
    /\ \E q \in PillarKeysOf(report) : ~Degraded(report[q])

MarkupChecks ==
    CheckNames("screen_reader") \cup
    {"check_direct_labels", "check_visual_grouping", "check_skip_links", "check_font_scaling"}

\* C6: no markup-dependent check raises, whatever the markup: the six
\* screen-reader checks and their run_all, direct_labels, visual_grouping,
\* skip_links and font_scaling all return a CheckResult.
C6_MarkupChecksNeverRaise ==
    (call.method \in MarkupChecks \/ (call.method = "run_all" /\ ev.kind = "screen_reader"))
        => res.ok

RECURSIVE SumScores(_)
SumScores(checks) ==
    IF DOMAIN checks = {} THEN 0
    ELSE LET n == CHOOSE x \in DOMAIN checks : TRUE
         IN  checks[n].score + SumScores([m \in DOMAIN checks \ {n} |-> checks[m]])

ExpectedMax(pkey) ==
    CASE pkey = "color_accessibility" -> 21
      [] pkey = "screen_reader_accessibility" -> 18
      [] pkey = "cognitive_accessibility" -> 15
      [] pkey = "motor_accessibility" -> 15
      [] pkey = "responsive_accessibility" -> 21

\* C7: in every pillar entry of the report, max_score is 3 times the number
\* of checks, total_score is the sum of the checks' scores and lies between
\* 0 and max_score; an entry with results has the maximum of its pillar
\* (21, 18, 15, 15, 21).
C7_SummaryTotals ==
    \A k \in PillarKeysOf(report) :
        LET e == report[k]
        IN  /\ e.summary.max_score = Pts(3 * Cardinality(DOMAIN e.checks))
            /\ e.summary.total_score = SumScores(e.checks)
            /\ 0 <= e.summary.total_score
            /\ e.summary.total_score <= e.summary.max_score
            /\ ~Degraded(e) => e.summary.max_score = Pts(ExpectedMax(k))

\* A returned report with a half-integer total, a motor entry with results
\* and a degraded entry.
C7_Witness ==
    /\ pc = "done"
    /\ \E k \in PillarKeysOf(report) : report[k].summary.total_score % ScoreScale = 1
    /\ \E k \in PillarKeysOf(report) : Degraded(report[k])
    /\ "motor_accessibility" \in DOMAIN report

\* p (in tenths) is total / max * 100 rounded to one decimal: it is within
\* half a tenth of the quotient.
IsRoundedPct(p, total, max) ==
    /\ 2 * (p * max - 1000 * total) <= max
    /\ 2 * (1000 * total - p * max) <= max

\* C8, as claimed: in every pillar entry the percentage is
\* total_score / max_score * 100 rounded to one decimal (so the quotient
\* exists: max_score is not 0).
C8_PercentageOfEveryEntry ==
    \A k \in PillarKeysOf(report) :
        /\ report[k].summary.max_score # 0
        /\ IsRoundedPct(report[k].summary.percentage, report[k].summary.total_score,
                        report[k].summary.max_score)

\* C8, amended: in every pillar entry with results the percentage is
\* total_score / max_score * 100 rounded to one decimal; a degraded entry
\* has max_score 0 and percentage 0.
C8_PercentageOfEntriesWithResults ==
    \A k \in PillarKeysOf(report) :
        IF Degraded(report[k])
        THEN report[k].summary.max_score = 0 /\ report[k].summary.percentage = 0
        ELSE /\ report[k].summary.max_score > 0
             /\ IsRoundedPct(report[k].summary.percentage, report[k].summary.total_score,
                             report[k].summary.max_score)

\* A returned report with a percentage that needed rounding.
C8_Witness ==
    /\ pc = "done"
    /\ \E k \in PillarKeysOf(report) :
          /\ ~Degraded(report[k])
          /\ report[k].summary.percentage * report[k].summary.max_score
                # 1000 * report[k].summary.total_score

AllCheckNames ==
    UNION {CheckNames(k) : k \in {"color", "screen_reader", "cognitive", "motor", "responsive"}}

\* A score (in half points) between 0 and 3; whole, except that of
\* element_count, which is the mean of its two scores, each in 0..3.
ScoreInRange(name, r) ==
    /\ 0 <= r.score /\ r.score <= Pts(3)
    /\ IF name = "element_count"
       THEN /\ r.series_score \in 0..3 /\ r.gridlines_score \in 0..3
            /\ 2 * r.score = Pts(r.series_score + r.gridlines_score)
       ELSE r.score % ScoreScale = 0

\* C9: every CheckResult of the 30 checks, called alone or by run_all, has a
\* score between 0 and 3, an integer except for element_count.
C9_ScoresInRange ==
    /\ Cardinality(AllCheckNames) = 30
    /\ (call.method \in AllCheckNames /\ res.ok) => ScoreInRange(call.method, res.val)
    /\ (call.method = "run_all" /\ res.ok) =>
          \A n \in DOMAIN res.val.checks : ScoreInRange(n, res.val.checks[n])

\* element_count returned a half-integer score.
C9_Witness ==
    /\ call.method = "element_count" /\ res.ok
    /\ res.val.score % ScoreScale = 1

ContrastCalls == {"contrast_ratio", "utils.contrast_ratio"}

\* ratio = k and ratio <= k for a whole k, without a product beyond 32 bits.
RatioIs(ratio, k) == ratio[1] \div k = ratio[2] /\ ratio[1] % k = 0
RatioAtMost(ratio, k) == ratio[1] \div k < ratio[2] \/ RatioIs(ratio, k)

\* C12: for valid hex colors a and b, contrast_ratio(a, b) is
\* contrast_ratio(b, a) and lies between 1 and 21; contrast_ratio(x, x) is 1
\* and contrast_ratio("#000000", "#ffffff") is 21. (A ratio is the pair
\* <<numerator, denominator>>.)
C12_ContrastRatioSymmetricInRange ==
    (/\ call.method \in ContrastCalls
     /\ WellFormedColor(call.args.hex1) /\ WellFormedColor(call.args.hex2)) =>
        /\ res.ok
        /\ res.val[2] > 0
        /\ res.val = contrast_ratio_call(call.args.hex2, call.args.hex1).val
        /\ res.val[1] >= res.val[2]
        /\ RatioAtMost(res.val, 21)
        /\ call.args.hex1 = call.args.hex2 => res.val[1] = res.val[2]
        /\ (call.args.hex1 = Black /\ call.args.hex2 = White) => RatioIs(res.val, 21)

\* The ratio of a darker first color to a lighter second one, above 1.
C12_Witness ==
    /\ call.method \in ContrastCalls /\ res.ok
    /\ call.args.hex1 = DarkGray /\ call.args.hex2 = Red
    /\ res.val[1] > res.val[2]

HexToRgbCalls == {"hex_to_rgb", "utils.hex_to_rgb"}

\* C13: hex_to_rgb fails with the invalid-color error for every string that
\* is not exactly six hex digits with an optional leading '#' (too short,
\* too long, more than one '#', a non-hex character); no such string yields
\* an RGB triple.
C13_HexToRgbRejectsMalformed ==
    (call.method \in HexToRgbCalls /\ ~WellFormedColor(call.args.hex_color)) =>
        ~res.ok /\ res.err.type = "ValueError"

\* The score of a fraction p / n (n > 0): >= 0.9 gives 3, >= 0.7 gives 2,
\* >= 0.4 gives 1, anything less 0.
BucketOf(p, n) ==
    IF 10 * p >= 9 * n THEN 3
    ELSE IF 10 * p >= 7 * n THEN 2
    ELSE IF 10 * p >= 4 * n THEN 1
    ELSE 0

\* The number of colors whose contrast ratio against bg is at least 4.5.
PassingText(palette, bg) ==
    Cardinality({i \in 1..Len(palette) :
                    2 * contrast_ratio(palette[i], bg)[1] >= 9 * contrast_ratio(palette[i], bg)[2]})

\* C14: for a non-empty palette the background-contrast score is the bucket
\* of the fraction of colors whose ratio against the background is at least
\* 4.5, and pass_rate is that fraction times 100 rounded to one decimal; the
\* palette ["#000000", "#ffffff"] on "#ffffff" has pass rate 50.0 and score 1.
C14_BackgroundContrastBuckets ==
    (call.method = "check_background_contrast" /\ Len(ev.palette) > 0) =>
        /\ res.ok
        /\ res.val.score = Pts(BucketOf(PassingText(ev.palette, ev.background), Len(ev.palette)))
        /\ IsRoundedPct(res.val.pass_rate, PassingText(ev.palette, ev.background),
                        Len(ev.palette))
        /\ (ev.palette = <<Black, White>> /\ ev.background = White) =>
              res.val.score = Pts(1) /\ res.val.pass_rate = 500

\* Three colors of four pass: the score is 2.
C14_Witness ==
    /\ call.method = "check_background_contrast" /\ res.ok
    /\ Len(ev.palette) = 4
    /\ res.val.pass_rate = 750
    /\ res.val.score = Pts(2)

TargetsOf(self) ==
    IF "touch_targets" \in DOMAIN self.interactions THEN self.interactions["touch_targets"]
    ELSE <<>>
LargeEnough(sizes) == Cardinality({i \in 1..Len(sizes) : sizes[i] >= 44})

\* C15: an empty or missing touch_targets list scores 0; otherwise the score
\* is the bucket of the fraction of targets of size at least 44:
\* [50, 50, 30, 50] has pass rate 75.0 and score 2, and a target of exactly
\* 44 passes.
C15_TouchTargetBuckets ==
    call.method = "touch_targets" =>
        /\ res.ok
        /\ IF TargetsOf(ev) = <<>> THEN res.val.score = 0
           ELSE /\ res.val.score = Pts(BucketOf(LargeEnough(TargetsOf(ev)), Len(TargetsOf(ev))))
                /\ IsRoundedPct(res.val.pass_rate, LargeEnough(TargetsOf(ev)), Len(TargetsOf(ev)))
        /\ TargetsOf(ev) = <<50, 50, 30, 50>> => res.val.score = Pts(2) /\ res.val.pass_rate = 750
        /\ TargetsOf(ev) = <<44>> => res.val.score = Pts(3)

\* The targets of Scenario C were scored.
C15_Witness ==
    /\ call.method = "touch_targets" /\ res.ok
    /\ TargetsOf(ev) = <<50, 50, 30, 50>>
    /\ res.val.score = Pts(2)

IsHeading(e) ==
    Len(e.name) = 2 /\ e.name[1] = "h" /\ e.name[2] \in {"1", "2", "3", "4", "5", "6"}
LevelOf(e) == CHOOSE n \in 1..6 : <<"1", "2", "3", "4", "5", "6">>[n] = e.name[2]

\* The levels of the headings h1..h6 of a document, in document order.
HeadingLevels(doc) ==
    LET hs == SelectSeq(doc, IsHeading)
    IN  [i \in 1..Len(hs) |-> LevelOf(hs[i])]

WellFormedLevels(hs) == \A i \in 1..(Len(hs) - 1) : hs[i + 1] <= hs[i] + 1

\* C16: heading_structure scores 0 when the markup has no headings;
\* otherwise 3 when no heading's level exceeds the previous one's by more
\* than one and the first level is 1, 2 when no level does and the first is
\* not 1, and 1 otherwise.
C16_HeadingStructureScore ==
    call.method = "heading_structure" =>
        /\ res.ok
        /\ res.val.score =
              Pts(IF HeadingLevels(ev.soup) = <<>> THEN 0
                  ELSE IF WellFormedLevels(HeadingLevels(ev.soup))
                       THEN (IF HeadingLevels(ev.soup)[1] = 1 THEN 3 ELSE 2)
                       ELSE 1)

\* C17: run_all of a ColorAccessibility with an empty palette returns a
\* pillar result with all seven checks and max_score 21; no check raises.
C17_EmptyPaletteDegrades ==
    (call.method = "run_all" /\ ev.kind = "color" /\ ev.palette = <<>>) =>
        /\ res.ok
        /\ Cardinality(DOMAIN res.val.checks) = 7
        /\ res.val.summary.max_score = Pts(21)

CognitiveKey == "cognitive_accessibility"

\* Whether some element of the markup carries the class "group".
HasGroupMarker(doc) ==
    \E i \in 1..Len(doc) :
        /\ "class" \in DOMAIN doc[i].attrs
        /\ <<"g", "r", "o", "u", "p">> \in SplitWs(doc[i].attrs["class"])

TopLevelMarkup(c) == IF "chart_html" \in DOMAIN c THEN c["chart_html"] ELSE <<>>

\* C18: in an audit run the visual_grouping check of the cognitive pillar
\* scores 3 when the configuration's top-level chart_html holds an element
\* with the grouping marker and 0 when it does not.
C18_VisualGroupingReadsChartMarkup ==
    (pc = "done" /\ CognitiveKey \in DOMAIN report /\ ~Degraded(report[CognitiveKey])) =>
        report[CognitiveKey].checks["visual_grouping"].score =
            Pts(IF HasGroupMarker(TopLevelMarkup(cfg)) THEN 3 ELSE 0)

\* The sum of a summary field over the pillars a report holds.
SumOfReported(rep, field) ==
    SumSeq([i \in 1..Len(PILLARS) |->
              IF PILLARS[i][2] \in DOMAIN rep THEN rep[PILLARS[i][2]].summary[field] ELSE 0])

\* C19: printing a report that run_checks returned completes without a
\* fault, and the text report's overall score is the sum of total_score over
\* the sum of max_score of the pillars the report holds.
C19_TextReportCompletes ==
    pc = "printed" =>
        /\ stdout.ok
        /\ stdout.val.format = "text" =>
              /\ stdout.val.total_score = SumOfReported(report, "total_score")
              /\ stdout.val.total_max = SumOfReported(report, "max_score")
              /\ stdout.val.total_max > 0

=============================================================================
